---- MODULE Spec2Model ----
(***************************************************************************)
(* Model of SequentialModel.predict of                                     *)
(* tools/accuracy_checker/custom_evaluators/text_spotting_evaluator.py:    *)
(* the detector call, the per-instance encoder call and the greedy         *)
(* autoregressive decoder loop, and the hand-over to the adapter.          *)
(* One action per backend call (the positions where the call can fail);    *)
(* the statements between two backend calls belong to the action of the    *)
(* call they follow.  Return hands control back to the caller, which may   *)
(* call predict again on the same model object.                            *)
(* BuildSpec puts the construction of the model in front of these calls,    *)
(* Release drops the sub-models' handles, and EvalSpec is the              *)
(* TextSpottingEvaluator around the model: process_dataset,                *)
(* compute_metrics, print_metrics_results, reset and release.              *)
(***************************************************************************)
EXTENDS Integers, Sequences, FiniteSets, TLC

\* ---------------------------------------------------------------- bounds
MaxInstances == 2
MaxSeqLen == 2
\* release calls made on one model object
MaxReleases == 2
\* batches of the dataset
MaxBatches == 2
\* reset calls made on one evaluator
MaxResets == 1

\* ------------------------------------------------------------ input sets
\* the configured alphabet; the decoder's distributions range over its indices
Alphabet == <<"a", "b", "c">>
VocabSize == Len(Alphabet)

\* identifier lists handed to predict (len 0, 1, 2)
IdentifierLists == {<<>>, <<"img0">>, <<"img0", "img1">>}

\* declared shape of the detector's 4-D image input (N, C, H, W)
DetectorInputShape == <<1, 3, 2, 2>>

\* shapes of np.array(input_data): (N, H, W, C) images, 1-, 3- and 5-D arrays,
\* batches of 0 and 2, one batch of 2 with as many elements as the declared
\* input, and one batch of 1 with too many elements
InputShapes ==
    { <<1, 2, 2, 3>>, <<2, 2, 2, 3>>, <<2, 1, 2, 3>>, <<0, 2, 2, 3>>,
      <<2, 2, 3>>, <<12>>, <<1, 1, 2, 2, 3>>, <<1, 4, 2, 3>> }

\* shapes (B, C, H, W) of the encoder's raw output
EncoderOutputShapes == { <<1, 2, 2, 2>>, <<1, 3, 1, 2>> }

\* declared shape of the decoder's prev_hidden input
DecoderHiddenShape == <<1, 2>>

\* --------------------------------------------------------------- tensors
RECURSIVE Prod(_)
Prod(shape) == IF shape = <<>> THEN 1 ELSE Head(shape) * Prod(Tail(shape))

\* a tensor is its shape and its elements in row-major order
Tensor(shape, data) == [shape |-> shape, data |-> data]

Fill(shape, v) == Tensor(shape, [k \in 1..Prod(shape) |-> v])

\* np.zeros(shape)
Zeros(shape) == Fill(shape, 0)

\* np.reshape(t, (t.shape[0], t.shape[1], -1))
Reshape3(t) ==
    LET s0 == t.shape[1]
        s1 == t.shape[2]
    IN  Tensor(<<s0, s1, Prod(t.shape) \div (s0 * s1)>>, t.data)

\* the reshaped tensor handed on as it is, its axes not swapped
NoTranspose(t) == t

\* np.transpose(t, (0, 2, 1)) of a 3-D tensor
Transpose021(t) ==
    LET s0 == t.shape[1]
        s1 == t.shape[2]
        s2 == t.shape[3]
        Src(k) == LET b == (k - 1) \div (s2 * s1)
                      p == ((k - 1) \div s1) % s2
                      c == (k - 1) % s1
                  IN  b * s1 * s2 + c * s2 + p + 1
    IN  Tensor(<<s0, s2, s1>>, [k \in 1..(s0 * s1 * s2) |-> t.data[Src(k)]])

\* ------------------------------------------------------ backend responses
\* the encoder's raw outputs for one feature map
EncoderOutputs(f) ==
    { Tensor(s, [k \in 1..Prod(s) |-> 10 * f + k]) : s \in EncoderOutputShapes }

\* symbols_distribution rows (1, vocab): one peak per symbol, and a tie
OneHot(s) == [j \in 1..VocabSize |-> IF j = s + 1 THEN 1 ELSE 0]
Flat == [j \in 1..VocabSize |-> 1]

\* the decoder's outputs: a distribution and the cur_hidden that comes with it
DecoderOutputs ==
    { [symbols_distribution |-> <<OneHot(s)>>,
       cur_hidden |-> Fill(DecoderHiddenShape, s + 1)] : s \in 0..(VocabSize - 1) }
    \cup { [symbols_distribution |-> <<Flat>>, cur_hidden |-> Zeros(DecoderHiddenShape)] }

\* the value the detector returns under an extra key
DetectorValue(k) == [dtype |-> "float32", itemsize |-> 4, items |-> << <<k>> >>]

DetectorOutput(tf, extra) ==
    [k \in {"text_features"} \cup extra |->
        IF k = "text_features" THEN tf ELSE DetectorValue(k)]

\* the detector's outputs for n instances: feature maps 1..n in ascending order
\* with boxes and scores, or in descending order with an output named "texts"
\* as well
DetectorOutputs(n) ==
    { DetectorOutput([j \in 1..n |-> j], {"boxes", "scores"}),
      DetectorOutput([j \in 1..n |-> n + 1 - j], {"boxes", "scores", "texts"}) }

\* -------------------------------------------------------------- variables
VARIABLES
    max_seq_len, alphabet, sos_index, eos_index, hidden_shape,  \* model fields
    pc, error,                                                  \* control
    idenitifiers, input_data,                                   \* arguments
    detector_outputs, feat_idx, texts,                          \* predict locals
    enc_input, feature, hidden, prev_symbol_index, text, i,
    output,                                                     \* return value
    calls, dec_log, decoded, detector_returned, adapter_in,     \* observations
    feature_raw,                    \* the encoder's 'output' before the reshape
    network_info, handles, release_log,  \* configuration, exec_network handles
    \* TextSpottingEvaluator
    ev_pc, ev_error, need_store_predictions, progress_reporter, dataset_size,
    batch_id, _annotations, _predictions, _metrics_results, launcher_released,
    ev_log, returned, written, epoch, release_step

fields == <<max_seq_len, alphabet, sos_index, eos_index, hidden_shape>>
args == <<idenitifiers, input_data>>
loop_locals == <<enc_input, feature_raw, feature, hidden, prev_symbol_index, text, i>>
lifecycle == <<network_info, handles, release_log>>
evaluator == <<ev_pc, ev_error, need_store_predictions, progress_reporter, dataset_size,
               batch_id, _annotations, _predictions, _metrics_results,
               launcher_released, ev_log, returned, written, epoch, release_step>>
\* what no step of predict touches
outside == <<lifecycle, evaluator>>
vars == <<fields, pc, error, args, detector_outputs, feat_idx, texts,
          loop_locals, output, calls, dec_log, decoded, detector_returned,
          adapter_in, outside>>

None == [none |-> TRUE]
NoTensor == Tensor(<<>>, <<>>)

Call(kind, inst, ok) == [kind |-> kind, inst |-> inst, ok |-> ok]

\* the keys SequentialModel.__init__ reads from network_info, in reading order
RequiredKeys ==
    <<"detector", "recognizer_encoder", "recognizer_decoder",
      "recognizer_decoder_inputs", "recognizer_decoder_outputs", "max_seq_len",
      "adapter", "alphabet", "sos_index", "eos_index">>

\* the three keys contains_all looks for
ArtifactKeys == {"detector", "recognizer_encoder", "recognizer_decoder"}

\* a complete network_info: the numeric entries hold the configured numbers,
\* every other entry stands for itself
NetworkInfo(msl, sos, eos) ==
    [k \in {RequiredKeys[j] : j \in 1..Len(RequiredKeys)} |->
        CASE k = "max_seq_len" -> msl
          [] k = "sos_index" -> sos
          [] k = "eos_index" -> eos
          [] k = "alphabet" -> Alphabet
          [] OTHER -> k]

\* the network_info dictionaries a model is constructed from: complete ones and
\* ones that lack any of the keys
NetworkInfos ==
    { [k \in keys |-> full[k]] :
        keys \in SUBSET {RequiredKeys[j] : j \in 1..Len(RequiredKeys)},
        full \in { NetworkInfo(m, s, e) :
                     m \in 1..MaxSeqLen, s \in 0..(VocabSize - 1), e \in 0..(VocabSize - 1) } }

\* the sub-models whose exec_network the model holds
SubModels == {"detector", "recognizer_encoder", "recognizer_decoder"}

\* the evaluator around the model, not in use
EvaluatorUnused ==
    /\ ev_pc = "ready"
    /\ ev_error = "none"
    /\ need_store_predictions = FALSE
    /\ progress_reporter = FALSE
    /\ dataset_size = 0
    /\ batch_id = 0
    /\ _annotations = None
    /\ _predictions = None
    /\ _metrics_results = <<>>
    /\ launcher_released = FALSE
    /\ ev_log = <<>>
    /\ returned = None
    /\ written = <<>>
    /\ epoch = 0
    /\ release_step = 0

\* ------------------------------------------------------------------- Init
Init ==
    /\ max_seq_len \in 1..MaxSeqLen
    /\ alphabet = Alphabet
    /\ sos_index \in 0..(VocabSize - 1)
    /\ eos_index \in 0..(VocabSize - 1)
    /\ hidden_shape = DecoderHiddenShape
    /\ pc = "idle"
    /\ error = "none"
    /\ idenitifiers = <<>>
    /\ input_data = <<>>
    /\ detector_outputs = None
    /\ feat_idx = 0
    /\ texts = <<>>
    /\ enc_input = 0
    /\ feature = NoTensor
    /\ hidden = NoTensor
    /\ prev_symbol_index = <<>>
    /\ text = <<>>
    /\ i = 0
    /\ output = None
    /\ calls = <<>>
    /\ dec_log = <<>>
    /\ decoded = <<>>
    /\ detector_returned = None
    /\ adapter_in = None
    /\ feature_raw = NoTensor
    /\ network_info = NetworkInfo(max_seq_len, sos_index, eos_index)
    /\ handles = SubModels
    /\ release_log = <<>>
    /\ EvaluatorUnused


\* --------------------------------------------------------- construction
\* before SequentialModel(network_info, launcher) is called: no model object
BuildInit ==
    /\ network_info \in NetworkInfos
    /\ max_seq_len = None
    /\ alphabet = None
    /\ sos_index = None
    /\ eos_index = None
    /\ hidden_shape = None
    /\ pc = "unbuilt"
    /\ error = "none"
    /\ idenitifiers = <<>>
    /\ input_data = <<>>
    /\ detector_outputs = None
    /\ feat_idx = 0
    /\ texts = <<>>
    /\ enc_input = 0
    /\ feature_raw = NoTensor
    /\ feature = NoTensor
    /\ hidden = NoTensor
    /\ prev_symbol_index = <<>>
    /\ text = <<>>
    /\ i = 0
    /\ output = None
    /\ calls = <<>>
    /\ dec_log = <<>>
    /\ decoded = <<>>
    /\ detector_returned = None
    /\ adapter_in = None
    /\ handles = {}
    /\ release_log = <<>>
    /\ EvaluatorUnused

\* a missing key read with a default, as network_info.get(key, 0) would
ReadKeyWithDefault(info, k) ==
    [found |-> TRUE, value |-> IF k \in DOMAIN info THEN info[k] ELSE 0]

\* network_info[key]: the value, or no value and a KeyError
ReadKey(info, k) ==
    [found |-> k \in DOMAIN info, value |-> IF k \in DOMAIN info THEN info[k] ELSE None]

\* contains_all(network_info, [...])
ContainsAll(info, keys) == keys \subseteq DOMAIN info

\* the exception __init__ raises: ConfigError from the contains_all test, the
\* KeyError of the first subscript that finds no key, or none
ConstructionError(info) ==
    IF ~ContainsAll(info, ArtifactKeys) THEN "ConfigError"
    ELSE IF \E j \in 4..Len(RequiredKeys) : ~ReadKey(info, RequiredKeys[j]).found
         THEN "KeyError"
    ELSE "none"

\* SequentialModel.__init__ raises: no model object; the sub-models were
\* created if the failure is a KeyError of a later key
ConstructFails ==
    /\ pc = "unbuilt"
    /\ ConstructionError(network_info) # "none"
    /\ pc' = "no_model"
    /\ error' = ConstructionError(network_info)
    /\ handles' = IF ConstructionError(network_info) = "KeyError" THEN SubModels ELSE {}
    /\ UNCHANGED <<fields, args, detector_outputs, feat_idx, texts, loop_locals, output,
                   calls, dec_log, decoded, detector_returned, adapter_in,
                   network_info, release_log, evaluator>>

\* SequentialModel.__init__ returns: the sub-models are loaded and the fields
\* hold the configured values
Construct ==
    /\ pc = "unbuilt"
    /\ ConstructionError(network_info) = "none"
    /\ handles' = SubModels
    /\ max_seq_len' = ReadKey(network_info, "max_seq_len").value
    /\ alphabet' = ReadKey(network_info, "alphabet").value
    /\ sos_index' = ReadKey(network_info, "sos_index").value
    /\ eos_index' = ReadKey(network_info, "eos_index").value
    /\ hidden_shape' = DecoderHiddenShape
    /\ pc' = "idle"
    /\ UNCHANGED <<error, args, detector_outputs, feat_idx, texts, loop_locals, output,
                   calls, dec_log, decoded, detector_returned, adapter_in,
                   network_info, release_log, evaluator>>

\* ---------------------------------------------------------------- helpers
\* assert len(idenitifiers) == 1
IdentifiersOk(ids) == Len(ids) = 1

\* the batch-size assertion left out
InputShapeOkAnyBatch(shape) == Len(shape) = 4

\* assert len(input_data.shape) == 4; assert input_data.shape[0] == 1
InputShapeOk(shape) == Len(shape) = 4 /\ shape[1] = 1

\* fit_to_input: transpose (0, 3, 1, 2) needs four axes, reshape to the declared
\* input shape needs the same number of elements
FitsInput(shape) == Len(shape) = 4 /\ Prod(shape) = Prod(DetectorInputShape)

\* the exception a predict call raises before the detector's backend call
PreconditionError(ids, shape) ==
    IF ~IdentifiersOk(ids) THEN "AssertionError"
    ELSE IF ~InputShapeOk(shape) THEN "AssertionError"
    ELSE IF ~FitsInput(shape) THEN "ValueError"
    ELSE "none"

\* the loop left one feature map early
LoopDoneEarly(idx, tf) == idx >= Len(tf)

\* for feature in text_features: the loop is over when the list is exhausted
LoopDone(idx, tf) == idx > Len(tf)

\* one iteration too many
RangeHasNextInclusive(n) == n <= max_seq_len

\* for i in range(self.max_seq_len): another iteration after n completed ones
RangeHasNext(n) == n < max_seq_len

\* the previous symbol set once, before the loop over the feature maps
InitPrevSymbolOnce == IF prev_symbol_index = <<>> THEN <<sos_index>> ELSE prev_symbol_index

\* np.ones((1,)) * self.sos_index
InitPrevSymbol == <<sos_index>>

\* the hidden state zeroed once, before the loop over the feature maps
InitHiddenOnce(shape) == IF hidden = NoTensor THEN Zeros(shape) ELSE hidden

\* np.zeros(hidden_shape)
InitHidden(shape) == Zeros(shape)

\* np.argmax(row): the first index (0-based) holding the maximum
ArgMax(row) ==
    CHOOSE s \in 0..(Len(row) - 1) :
        /\ \A j \in 1..Len(row) : row[j] <= row[s + 1]
        /\ \A j \in 1..s : row[j] < row[s + 1]

\* np.argmax(coder_output, axis=1): one index per row
ArgMaxAxis1(dist) == [r \in 1..Len(dist) |-> ArgMax(dist[r])]

\* the character put in front of the text
AddSymbolInFront(t, sym) == <<alphabet[sym[1] + 1]>> \o t

\* text += self.alphabet[int(prev_symbol_index)]
AddSymbol(t, sym) == Append(t, alphabet[sym[1] + 1])

\* a collection built in reverse: each text put in front of the earlier ones
AppendTextInFront(ts, t) == <<t>> \o ts

\* texts.append(text)
AppendText(ts, t) == Append(ts, t)

RECURSIVE MaxLen(_)
MaxLen(ts) ==
    IF ts = <<>> THEN 0
    ELSE LET m == MaxLen(Tail(ts))
         IN  IF Len(Head(ts)) > m THEN Len(Head(ts)) ELSE m

\* np.array(texts): a fixed-width unicode array holding the strings in order
\* (an empty list gives an empty float64 array)
NpArray(ts) ==
    [dtype |-> IF ts = <<>> THEN "float64" ELSE "str",
     itemsize |-> IF ts = <<>> THEN 8 ELSE 4 * MaxLen(ts),
     items |-> ts]

\* a new mapping holding only the features and the texts
AttachTextsOnly(outputs, t) ==
    [k \in {"text_features", "texts"} |-> IF k = "texts" THEN t ELSE outputs[k]]

\* detector_outputs['texts'] = texts
AttachTexts(outputs, t) ==
    [k \in DOMAIN outputs \cup {"texts"} |-> IF k = "texts" THEN t ELSE outputs[k]]

\* the adapter is opaque: its result is a prediction built from its arguments
AdapterResult(raw, ids) == [prediction |-> TRUE, raw |-> raw, identifiers |-> ids]

TextFeatures == detector_outputs["text_features"]

\* the locals kept on the object from one call to the next
LocalsKept == UNCHANGED <<detector_outputs, feat_idx, texts, loop_locals>>

\* the locals of predict once the call has returned or raised
LocalsGone ==
    /\ detector_outputs' = None
    /\ feat_idx' = 0
    /\ texts' = <<>>
    /\ enc_input' = 0
    /\ feature_raw' = NoTensor
    /\ feature' = NoTensor
    /\ hidden' = NoTensor
    /\ prev_symbol_index' = <<>>
    /\ text' = <<>>
    /\ i' = 0

\* a new call starts with nothing observed
FreshObservations ==
    /\ dec_log' = <<>>
    /\ decoded' = <<>>
    /\ adapter_in' = None
    /\ output' = None

\* an exec_network that survives the release of its sub-model
HasExecNetworkAlways(m) == TRUE

\* the sub-model m still has its exec_network attribute
HasExecNetwork(m) == m \in handles

\* SequentialModel.release: the order in which the sub-models are released
SubModelOrder == <<"detector", "recognizer_encoder", "recognizer_decoder">>

\* del self.exec_network, sub-model by sub-model over the tail of SubModelOrder
\* from k on: the handles left and the outcome; the first sub-model without the
\* attribute raises and ends the release
RECURSIVE ReleaseFrom(_, _)
ReleaseFrom(k, h) ==
    IF k > Len(SubModelOrder) THEN [handles |-> h, outcome |-> "ok"]
    ELSE IF ~HasExecNetwork(SubModelOrder[k]) THEN [handles |-> h, outcome |-> "AttributeError"]
    ELSE ReleaseFrom(k + 1, h \ {SubModelOrder[k]})

Raise(e) == pc' = "failed" /\ error' = e /\ LocalsGone

Callable == pc = "idle"

\* ---------------------------------------------------------------- actions
\* predict, lines 173-240: a precondition fails before the backend is reached
PredictRejected ==
    /\ Callable
    /\ \E ids \in IdentifierLists, shape \in InputShapes :
         /\ PreconditionError(ids, shape) # "none"
         /\ idenitifiers' = ids
         /\ input_data' = shape
         /\ Raise(PreconditionError(ids, shape))
    /\ UNCHANGED <<fields, outside, output, calls, dec_log, decoded, detector_returned, adapter_in>>

\* predict, lines 173-242: exec_network.infer of the detector raises
DetectorFails ==
    /\ Callable
    /\ HasExecNetwork("detector")
    /\ \E ids \in IdentifierLists, shape \in InputShapes :
         /\ PreconditionError(ids, shape) = "none"
         /\ idenitifiers' = ids
         /\ input_data' = shape
    /\ calls' = Append(calls, Call("detector", 0, FALSE))
    /\ Raise("BackendError")
    /\ UNCHANGED <<fields, outside, output, dec_log, decoded, detector_returned, adapter_in>>

\* predict, lines 173-178: the detector returns its output mapping
DetectorReturns ==
    /\ Callable
    /\ HasExecNetwork("detector")
    /\ \E ids \in IdentifierLists, shape \in InputShapes :
         /\ PreconditionError(ids, shape) = "none"
         /\ idenitifiers' = ids
         /\ input_data' = shape
    /\ \E n \in 0..MaxInstances :
         \E o \in DetectorOutputs(n) :
            /\ detector_outputs' = o
            /\ detector_returned' = o
    /\ calls' = Append(calls, Call("detector", 0, TRUE))
    /\ texts' = <<>>
    /\ feat_idx' = 1
    /\ pc' = "loop"
    /\ UNCHANGED <<fields, outside, error, loop_locals, output, dec_log, decoded, adapter_in>>

\* predict on a released model, lines 173-242: the preconditions hold and the
\* lookup of self.exec_network raises before the backend is reached
PredictReleased ==
    /\ Callable
    /\ ~HasExecNetwork("detector")
    /\ \E ids \in IdentifierLists, shape \in InputShapes :
         /\ PreconditionError(ids, shape) = "none"
         /\ idenitifiers' = ids
         /\ input_data' = shape
    /\ Raise("AttributeError")
    /\ UNCHANGED <<fields, outside, output, calls, dec_log, decoded, detector_returned, adapter_in>>

\* SequentialModel.release, lines 215-218, called between two predict calls
Release ==
    /\ Callable
    /\ Len(release_log) < MaxReleases
    /\ LET r == ReleaseFrom(1, handles)
       IN  /\ handles' = r.handles
           /\ release_log' = Append(release_log, r.outcome)
    /\ UNCHANGED <<fields, pc, error, args, detector_outputs, feat_idx, texts, loop_locals,
                   output, calls, dec_log, decoded, detector_returned, adapter_in,
                   network_info, evaluator>>

\* line 180: the encoder's infer raises
EncoderFails ==
    /\ pc = "loop"
    /\ ~LoopDone(feat_idx, TextFeatures)
    /\ calls' = Append(calls, Call("encoder", feat_idx, FALSE))
    /\ Raise("BackendError")
    /\ UNCHANGED <<fields, outside, args, output, dec_log, decoded, detector_returned, adapter_in>>

\* lines 179-189: encode one feature map and set up its decoding loop
EncoderReturns ==
    /\ pc = "loop"
    /\ ~LoopDone(feat_idx, TextFeatures)
    /\ \E raw \in EncoderOutputs(TextFeatures[feat_idx]) :
         /\ feature_raw' = raw
         /\ feature' = Transpose021(Reshape3(raw))
    /\ enc_input' = TextFeatures[feat_idx]
    /\ calls' = Append(calls, Call("encoder", feat_idx, TRUE))
    /\ hidden' = InitHidden(hidden_shape)
    /\ prev_symbol_index' = InitPrevSymbol
    /\ text' = <<>>
    /\ i' = 0
    /\ dec_log' = <<>>
    /\ pc' = IF RangeHasNext(0) THEN "decode" ELSE "append"
    /\ UNCHANGED <<fields, outside, args, error, detector_outputs, feat_idx, texts, output,
                   decoded, detector_returned, adapter_in>>

\* the decoder's failure caught inside the loop: the instance keeps its text so far
DecoderFailsCaught ==
    /\ pc = "decode"
    /\ calls' = Append(calls, Call("decoder", feat_idx, FALSE))
    /\ pc' = "append"
    /\ UNCHANGED <<fields, outside, args, error, detector_outputs, feat_idx, texts, loop_locals,
                   output, dec_log, decoded, detector_returned, adapter_in>>

\* line 196: the decoder's infer raises
DecoderFails ==
    /\ pc = "decode"
    /\ calls' = Append(calls, Call("decoder", feat_idx, FALSE))
    /\ Raise("BackendError")
    /\ UNCHANGED <<fields, outside, args, output, dec_log, decoded, detector_returned, adapter_in>>

\* lines 191-203: one iteration of the decoding loop
DecoderReturns ==
    /\ pc = "decode"
    /\ \E out \in DecoderOutputs :
         LET sym == ArgMaxAxis1(out.symbols_distribution)
         IN  /\ prev_symbol_index' = sym
             /\ IF sym[1] = eos_index
                THEN /\ pc' = "append"
                     /\ UNCHANGED <<hidden, text, i>>
                ELSE /\ hidden' = out.cur_hidden
                     /\ text' = AddSymbol(text, sym)
                     /\ i' = i + 1
                     /\ pc' = IF RangeHasNext(i + 1) THEN "decode" ELSE "append"
             /\ dec_log' = Append(dec_log,
                    [prev_symbol |-> prev_symbol_index,
                     prev_hidden |-> hidden,
                     encoder_outputs |-> feature,
                     symbols_distribution |-> out.symbols_distribution,
                     cur_hidden |-> out.cur_hidden,
                     selected |-> sym[1],
                     text_after |-> text'])
    /\ calls' = Append(calls, Call("decoder", feat_idx, TRUE))
    /\ UNCHANGED <<fields, outside, args, error, detector_outputs, feat_idx, texts,
                   enc_input, feature_raw, feature, output, decoded, detector_returned,
                   adapter_in>>

\* line 204 and the step of the for loop over text_features
CollectText ==
    /\ pc = "append"
    /\ texts' = AppendText(texts, text)
    /\ decoded' = Append(decoded,
            [feature |-> enc_input,
             selected |-> [k \in 1..Len(dec_log) |-> dec_log[k].selected],
             text |-> text])
    /\ dec_log' = <<>>
    /\ feat_idx' = feat_idx + 1
    /\ pc' = "loop"
    /\ UNCHANGED <<fields, outside, args, error, detector_outputs, loop_locals, output, calls,
                   detector_returned, adapter_in>>

\* lines 206-210: attach the texts, call the adapter, return its result
AdapterProcess ==
    /\ pc = "loop"
    /\ LoopDone(feat_idx, TextFeatures)
    /\ adapter_in' = AttachTexts(detector_outputs, NpArray(texts))
    /\ output' = AdapterResult(adapter_in', idenitifiers)
    /\ calls' = Append(calls, Call("adapter", 0, TRUE))
    /\ pc' = "done"
    /\ LocalsGone
    /\ UNCHANGED <<fields, outside, args, error, dec_log, decoded, detector_returned>>

\* line 210 (or the propagating exception): control is back in the caller,
\* which may call predict again
Return ==
    /\ pc \in {"done", "failed"}
    /\ pc' = "idle"
    /\ error' = "none"
    /\ idenitifiers' = <<>>
    /\ input_data' = <<>>
    /\ calls' = <<>>
    /\ detector_returned' = None
    /\ FreshObservations
    /\ UNCHANGED <<fields, outside, detector_outputs, feat_idx, texts, loop_locals>>

Next ==
    \/ PredictRejected
    \/ DetectorFails
    \/ DetectorReturns
    \/ PredictReleased
    \/ Release
    \/ EncoderFails
    \/ EncoderReturns
    \/ DecoderFails
    \/ DecoderReturns
    \/ CollectText
    \/ AdapterProcess
    \/ Return

Spec == Init /\ [][Next]_vars

\* construction, then the calls made on the model it produced
BuildNext == Construct \/ ConstructFails \/ Next

BuildSpec == BuildInit /\ [][BuildNext]_vars

\* ------------------------------------------------------------ evaluator
\* TextSpottingEvaluator around one model object.  predict is taken as one
\* step here: it returns a prediction for the batch or raises, and leaves
\* nothing behind on the model (C11), so the variables of predict stay as
\* they are between two calls.

\* the metrics the executor is configured with, and the values one of them can
\* evaluate to
MetricNames == <<"metric_a", "metric_b">>
MetricValues == {1, 2}

\* what model.predict can return for a batch
PredictionValues == {"x", "y"}

PyList(items) == [type |-> "list", items |-> items]
PyTuple(items) == [type |-> "tuple", items |-> items]

\* the dataset: batch b (0-based) holds one image with its annotation
BatchIndices(b) == <<b>>
BatchAnnotation(b) == <<[identifier |-> b, annotation |-> TRUE]>>
BatchIdentifiers(b) == <<b>>
BatchPrediction(b, v) == <<[identifier |-> b, value |-> v]>>

\* line 58-59: the conditional expression is the first element of the tuple on
\* the right-hand side, so _annotations gets ([], []) or None and _predictions
\* gets None
StoredAnnotationsInit(store) == IF store THEN PyTuple(<<PyList(<<>>), PyList(<<>>)>>) ELSE None
StoredPredictionsInit(store) == None

\* value.extend(items): only a list has the method
CanExtend(value) == value # None /\ value.type = "list"
Extend(value, items) == PyList(value.items \o items)

\* update_metrics_on_batch called before predict
BatchCallsUpdateFirst(b, p) ==
    << [op |-> "update_metrics_on_batch", indices |-> BatchIndices(b),
        annotation |-> BatchAnnotation(b), prediction |-> p],
       [op |-> "predict", identifiers |-> BatchIdentifiers(b), ok |-> TRUE, result |-> p] >>

\* lines 69-71: model.predict, then metric_executor.update_metrics_on_batch
BatchCalls(b, p) ==
    << [op |-> "predict", identifiers |-> BatchIdentifiers(b), ok |-> TRUE, result |-> p],
       [op |-> "update_metrics_on_batch", indices |-> BatchIndices(b),
        annotation |-> BatchAnnotation(b), prediction |-> p] >>

\* the exception process_dataset raises in a batch after update_metrics_on_batch:
\* extend on what is not a list (line 73), update on a reporter that is None
\* (line 76)
BatchError ==
    IF need_store_predictions /\ ~CanExtend(_annotations) THEN "AttributeError"
    ELSE IF need_store_predictions /\ ~CanExtend(_predictions) THEN "AttributeError"
    ELSE IF ~progress_reporter THEN "AttributeError"
    ELSE "none"

Raised(e) == [op |-> "raised", error |-> e]
Completed == [op |-> "completed"]

\* a new operation on the evaluator starts with nothing observed
NewOperation ==
    /\ ev_pc = "ready"
    /\ pc = "idle"

\* process_dataset, lines 58-61
ProcessDatasetStart ==
    /\ NewOperation
    /\ \E reporter \in BOOLEAN :
         /\ progress_reporter' = reporter
         /\ ev_log' = IF reporter
                      THEN <<[op |-> "reporter_reset", size |-> dataset_size]>>
                      ELSE <<>>
    /\ _annotations' = StoredAnnotationsInit(need_store_predictions)
    /\ _predictions' = StoredPredictionsInit(need_store_predictions)
    /\ batch_id' = 0
    /\ ev_pc' = "batches"
    /\ ev_error' = "none"
    /\ returned' = None
    /\ written' = <<>>
    /\ UNCHANGED <<fields, pc, error, args, detector_outputs, feat_idx, texts, loop_locals,
                   output, calls, dec_log, decoded, detector_returned, adapter_in,
                   lifecycle, need_store_predictions, dataset_size, _metrics_results,
                   launcher_released, epoch, release_step>>

\* lines 63-69: model.predict raises, and process_dataset with it
BatchPredictFails ==
    /\ ev_pc = "batches"
    /\ batch_id < dataset_size
    /\ LET e == IF HasExecNetwork("detector") THEN "BackendError" ELSE "AttributeError"
       IN  /\ ev_error' = e
           /\ ev_log' = ev_log \o
                <<[op |-> "predict", identifiers |-> BatchIdentifiers(batch_id), ok |-> FALSE,
                   result |-> <<>>],
                  Raised(e)>>
    /\ ev_pc' = "ready"
    /\ UNCHANGED <<fields, pc, error, args, detector_outputs, feat_idx, texts, loop_locals,
                   output, calls, dec_log, decoded, detector_returned, adapter_in,
                   lifecycle, need_store_predictions, progress_reporter, dataset_size,
                   batch_id, _annotations, _predictions, _metrics_results,
                   launcher_released, returned, written, epoch, release_step>>

\* lines 63-76: one batch
ProcessBatch ==
    /\ ev_pc = "batches"
    /\ batch_id < dataset_size
    /\ HasExecNetwork("detector")
    /\ \E v \in PredictionValues :
         LET p == BatchPrediction(batch_id, v)
         IN  /\ IF need_store_predictions /\ CanExtend(_annotations)
                THEN _annotations' = Extend(_annotations, BatchAnnotation(batch_id))
                ELSE UNCHANGED _annotations
             /\ IF need_store_predictions /\ CanExtend(_annotations) /\ CanExtend(_predictions)
                THEN _predictions' = Extend(_predictions, p)
                ELSE UNCHANGED _predictions
             /\ IF BatchError # "none"
                THEN /\ ev_log' = ev_log \o BatchCalls(batch_id, p) \o <<Raised(BatchError)>>
                     /\ ev_error' = BatchError
                     /\ ev_pc' = "ready"
                     /\ UNCHANGED batch_id
                ELSE /\ ev_log' = ev_log \o BatchCalls(batch_id, p) \o
                            <<[op |-> "reporter_update", batch_id |-> batch_id, count |-> Len(p)]>>
                     /\ batch_id' = batch_id + 1
                     /\ UNCHANGED <<ev_error, ev_pc>>
    /\ UNCHANGED <<fields, pc, error, args, detector_outputs, feat_idx, texts, loop_locals,
                   output, calls, dec_log, decoded, detector_returned, adapter_in,
                   lifecycle, need_store_predictions, progress_reporter, dataset_size,
                   _metrics_results, launcher_released, returned, written, epoch,
                   release_step>>

\* lines 78-79: the loop is over
ProcessDatasetFinish ==
    /\ ev_pc = "batches"
    /\ batch_id >= dataset_size
    /\ ev_log' = IF progress_reporter
                 THEN ev_log \o <<[op |-> "reporter_finish"], Completed>>
                 ELSE Append(ev_log, Completed)
    /\ ev_pc' = "ready"
    /\ UNCHANGED <<fields, pc, error, args, detector_outputs, feat_idx, texts, loop_locals,
                   output, calls, dec_log, decoded, detector_returned, adapter_in,
                   lifecycle, ev_error, need_store_predictions, progress_reporter,
                   dataset_size, batch_id, _annotations, _predictions, _metrics_results,
                   launcher_released, returned, written, epoch, release_step>>

\* the results of earlier calls left in the buffer
KeepBuffer(buffer) == buffer

\* lines 82-84: a non-empty buffer is deleted and replaced by an empty list
StartBuffer(buffer) == IF buffer # <<>> THEN <<>> ELSE buffer

\* what iterate_metrics yields: one evaluated metric per configured metric,
\* computed from what the executor has gathered since its last reset
Yielded(v) ==
    [j \in 1..Len(MetricNames) |-> [name |-> MetricNames[j], value |-> v, epoch |-> epoch]]

\* the body of compute_metrics, lines 82-92, with the values the executor yields
ComputeBody(print_results, v) ==
    /\ _metrics_results' = StartBuffer(_metrics_results) \o Yielded(v)
    /\ written' = IF print_results THEN Yielded(v) ELSE <<>>
    /\ ev_log' = <<[op |-> "iterate_metrics", annotations |-> _annotations,
                    predictions |-> _predictions, yielded |-> Yielded(v),
                    buffer_before |-> _metrics_results]>>

\* compute_metrics, lines 81-92
ComputeMetrics ==
    /\ NewOperation
    /\ \E print_results \in BOOLEAN, v \in MetricValues : ComputeBody(print_results, v)
    /\ returned' = _metrics_results'
    /\ ev_error' = "none"
    /\ UNCHANGED <<fields, pc, error, args, detector_outputs, feat_idx, texts, loop_locals,
                   output, calls, dec_log, decoded, detector_returned, adapter_in,
                   lifecycle, ev_pc, need_store_predictions, progress_reporter,
                   dataset_size, batch_id, _annotations, _predictions, launcher_released,
                   epoch, release_step>>

\* print_metrics_results, lines 94-100: an empty buffer is computed and printed,
\* a filled one is handed to the presenters as it is
PrintMetricsResults ==
    /\ NewOperation
    /\ IF _metrics_results = <<>>
       THEN \E v \in MetricValues : ComputeBody(TRUE, v)
       ELSE /\ written' = _metrics_results
            /\ ev_log' = <<>>
            /\ UNCHANGED _metrics_results
    /\ returned' = None
    /\ ev_error' = "none"
    /\ UNCHANGED <<fields, pc, error, args, detector_outputs, feat_idx, texts, loop_locals,
                   output, calls, dec_log, decoded, detector_returned, adapter_in,
                   lifecycle, ev_pc, need_store_predictions, progress_reporter,
                   dataset_size, batch_id, _annotations, _predictions, launcher_released,
                   epoch, release_step>>

\* reset, lines 106-108: the executor is reset, model.reset does nothing
EvaluatorReset ==
    /\ NewOperation
    /\ epoch < MaxResets
    /\ epoch' = epoch + 1
    /\ ev_log' = <<[op |-> "executor_reset"]>>
    /\ returned' = None
    /\ written' = <<>>
    /\ ev_error' = "none"
    /\ UNCHANGED <<fields, pc, error, args, detector_outputs, feat_idx, texts, loop_locals,
                   output, calls, dec_log, decoded, detector_returned, adapter_in,
                   lifecycle, ev_pc, need_store_predictions, progress_reporter,
                   dataset_size, batch_id, _annotations, _predictions, _metrics_results,
                   launcher_released, release_step>>

\* the launcher released before the model
ReleaseSequenceLauncherFirst == <<"launcher", "model">>

\* release, lines 103-104: self.model.release(), then self.launcher.release()
ReleaseSequence == <<"model", "launcher">>

\* release, line 102: the call
ReleaseBegin ==
    /\ NewOperation
    /\ Len(release_log) < MaxReleases
    /\ ev_pc' = "release"
    /\ release_step' = 1
    /\ ev_log' = <<>>
    /\ returned' = None
    /\ written' = <<>>
    /\ ev_error' = "none"
    /\ UNCHANGED <<fields, pc, error, args, detector_outputs, feat_idx, texts, loop_locals,
                   output, calls, dec_log, decoded, detector_returned, adapter_in,
                   lifecycle, need_store_predictions, progress_reporter, dataset_size,
                   batch_id, _annotations, _predictions, _metrics_results,
                   launcher_released, epoch>>

\* the step after the one being taken, or the end of release
ReleaseAdvance ==
    IF release_step < Len(ReleaseSequence)
    THEN release_step' = release_step + 1 /\ ev_pc' = "release"
    ELSE release_step' = 0 /\ ev_pc' = "ready"

\* line 103: SequentialModel.release; its exception ends the evaluator's release
ReleaseModel ==
    /\ ev_pc = "release"
    /\ ReleaseSequence[release_step] = "model"
    /\ LET r == ReleaseFrom(1, handles)
       IN  /\ handles' = r.handles
           /\ release_log' = Append(release_log, r.outcome)
           /\ ev_log' = Append(ev_log, [op |-> "model_release", outcome |-> r.outcome])
           /\ IF r.outcome = "ok"
              THEN ReleaseAdvance /\ UNCHANGED ev_error
              ELSE release_step' = 0 /\ ev_pc' = "ready" /\ ev_error' = r.outcome
    /\ UNCHANGED <<fields, pc, error, args, detector_outputs, feat_idx, texts, loop_locals,
                   output, calls, dec_log, decoded, detector_returned, adapter_in,
                   network_info, need_store_predictions, progress_reporter, dataset_size,
                   batch_id, _annotations, _predictions, _metrics_results,
                   launcher_released, returned, written, epoch>>

\* line 104: self.launcher.release()
ReleaseLauncher ==
    /\ ev_pc = "release"
    /\ ReleaseSequence[release_step] = "launcher"
    /\ launcher_released' = TRUE
    /\ ev_log' = Append(ev_log, [op |-> "launcher_release", handles_held |-> handles])
    /\ ReleaseAdvance
    /\ UNCHANGED <<fields, pc, error, args, detector_outputs, feat_idx, texts, loop_locals,
                   output, calls, dec_log, decoded, detector_returned, adapter_in,
                   lifecycle, ev_error, need_store_predictions, progress_reporter,
                   dataset_size, batch_id, _annotations, _predictions, _metrics_results,
                   returned, written, epoch>>

\* an evaluator with its model, executor and dataset, nothing processed yet
EvalInit ==
    /\ max_seq_len = 1
    /\ alphabet = Alphabet
    /\ sos_index = 0
    /\ eos_index = 1
    /\ hidden_shape = DecoderHiddenShape
    /\ network_info = NetworkInfo(1, 0, 1)
    /\ pc = "idle"
    /\ error = "none"
    /\ idenitifiers = <<>>
    /\ input_data = <<>>
    /\ detector_outputs = None
    /\ feat_idx = 0
    /\ texts = <<>>
    /\ enc_input = 0
    /\ feature_raw = NoTensor
    /\ feature = NoTensor
    /\ hidden = NoTensor
    /\ prev_symbol_index = <<>>
    /\ text = <<>>
    /\ i = 0
    /\ output = None
    /\ calls = <<>>
    /\ dec_log = <<>>
    /\ decoded = <<>>
    /\ detector_returned = None
    /\ adapter_in = None
    /\ handles = SubModels
    /\ release_log = <<>>
    /\ ev_pc = "ready"
    /\ ev_error = "none"
    /\ need_store_predictions \in BOOLEAN
    /\ progress_reporter = FALSE
    /\ dataset_size \in 0..MaxBatches
    /\ batch_id = 0
    /\ _annotations = None
    /\ _predictions = None
    /\ _metrics_results = <<>>
    /\ launcher_released = FALSE
    /\ ev_log = <<>>
    /\ returned = None
    /\ written = <<>>
    /\ epoch = 0
    /\ release_step = 0

EvalNext ==
    \/ ProcessDatasetStart
    \/ BatchPredictFails
    \/ ProcessBatch
    \/ ProcessDatasetFinish
    \/ ComputeMetrics
    \/ PrintMetricsResults
    \/ EvaluatorReset
    \/ ReleaseBegin
    \/ ReleaseModel
    \/ ReleaseLauncher

EvalSpec == EvalInit /\ [][EvalNext]_vars

\* the interpreter runs the call to its end: some step is always taken
FairSpec == Spec /\ WF_vars(Next)

TypeOK ==
    /\ pc \in {"unbuilt", "no_model", "idle", "loop", "decode", "append", "done", "failed"}
    /\ error \in {"none", "AssertionError", "ValueError", "BackendError", "AttributeError",
                  "ConfigError", "KeyError"}
    /\ pc \notin {"unbuilt", "no_model"} => i \in 0..max_seq_len
    /\ feat_idx \in 0..(MaxInstances + 1)

\* ------------------------------------------------------ claim vocabulary
\* the greedy choice over one distribution row: the lowest index of a maximum
GreedyIndex(row) ==
    CHOOSE s \in 0..(Len(row) - 1) :
        /\ \A j \in 1..Len(row) : row[s + 1] >= row[j]
        /\ \A j \in 1..Len(row) : row[j] = row[s + 1] => s + 1 <= j

\* the symbol indices selected from a sequence of (1, vocab) distributions
Selected(dists) == [k \in 1..Len(dists) |-> GreedyIndex(dists[k][1])]

\* the number of steps that contribute a character: those before the first EOS
Kept(sel) ==
    IF \E k \in 1..Len(sel) : sel[k] = eos_index
    THEN (CHOOSE k \in 1..Len(sel) :
            sel[k] = eos_index /\ \A j \in 1..(k - 1) : sel[j] # eos_index) - 1
    ELSE Len(sel)

\* alphabet[s_1] ... alphabet[s_m], m the steps before the first EOS
TextOf(sel) == [k \in 1..Kept(sel) |-> alphabet[sel[k] + 1]]

\* the symbols selected so far for the instance being decoded
LogSelected == Selected([k \in 1..Len(dec_log) |-> dec_log[k].symbols_distribution])

\* the text before decoder step k of the instance being decoded
TextBefore(k) == IF k = 1 THEN <<>> ELSE dec_log[k - 1].text_after

ReturnedFeatures == detector_returned["text_features"]

\* ------------------------------------------------------------------ C1
\* C1: in every successful predict call the 'texts' entry handed to the
\* adapter has exactly as many entries as the detector returned feature maps,
\* and entry j is the text decoded for the detector's j-th feature map: the
\* j-th decoding was fed text_features[j] and its selected symbols spell
\* entry j.
C1_TextsMatchInstances ==
    pc = "done" =>
        LET items == adapter_in["texts"].items
        IN  /\ Len(items) = Len(ReturnedFeatures)
            /\ Len(decoded) = Len(ReturnedFeatures)
            /\ \A j \in 1..Len(ReturnedFeatures) :
                 /\ decoded[j].feature = ReturnedFeatures[j]
                 /\ items[j] = decoded[j].text
                 /\ items[j] = TextOf(decoded[j].selected)

\* two instances, returned in descending order, decoded to different texts
C1_Witness ==
    /\ pc = "done"
    /\ ReturnedFeatures = <<2, 1>>
    /\ Len(adapter_in["texts"].items) = 2
    /\ adapter_in["texts"].items[1] # adapter_in["texts"].items[2]
    /\ adapter_in["texts"].items[1] # <<>>

\* ------------------------------------------------------------------ C2
\* C2: no decoder step whose selected symbol index is eos_index or sos_index
\* adds a character to the text: the text after such a step is the text
\* before it.
C2_ControlSymbolsNeverAppended ==
    \A k \in 1..Len(dec_log) :
        LogSelected[k] \in {eos_index, sos_index} => dec_log[k].text_after = TextBefore(k)

\* ------------------------------------------------------------------ C3
\* the decoder invocations (failed ones included) made for instance j
DecoderCallsOf(j) ==
    Cardinality({k \in 1..Len(calls) : calls[k].kind = "decoder" /\ calls[k].inst = j})

\* an EOS selection ends the loop: it can only be the instance's last invocation
EosIsLast == \A k \in 1..Len(dec_log) : LogSelected[k] = eos_index => k = Len(dec_log)

\* C3 as stated: at most max_seq_len decoder invocations per instance, and when
\* the loop of an instance is over, fewer than max_seq_len invocations were made
\* if and only if some invocation selected eos_index, which is then the last.
C3_FewerStepsIffEos ==
    /\ \A j \in 1..(MaxInstances + 1) : DecoderCallsOf(j) <= max_seq_len
    /\ pc = "append" =>
         /\ (Len(dec_log) < max_seq_len) <=> (\E k \in 1..Len(dec_log) : LogSelected[k] = eos_index)
         /\ EosIsLast

C3_StepsBounded ==
    /\ \A j \in 1..(MaxInstances + 1) : DecoderCallsOf(j) <= max_seq_len
    /\ EosIsLast
    /\ pc = "append" =>
         /\ DecoderCallsOf(feat_idx) = Len(dec_log)
         /\ (Len(dec_log) < max_seq_len) <=>
                (\E k \in 1..Len(dec_log) : k < max_seq_len /\ LogSelected[k] = eos_index)

\* C3 (amended): at most max_seq_len decoder invocations per instance and the
\* decoding loop always ends; when the loop of an instance is over, fewer than
\* max_seq_len invocations were made if and only if an invocation before the
\* max_seq_len-th selected eos_index; an invocation that selects eos_index is
\* always the last one of its instance.
C3_LoopBoundedAndEnds == []C3_StepsBounded /\ ((pc = "decode") ~> (pc # "decode"))

\* EOS selected at the very last permitted step: the cap is reached and EOS was seen
C3_Witness ==
    /\ pc = "append"
    /\ max_seq_len = 2
    /\ Len(dec_log) = 2
    /\ LogSelected[2] = eos_index

\* ------------------------------------------------------------------ C4
NoEos(sel) == \A k \in 1..Len(sel) : sel[k] # eos_index

\* C4: the text of an instance is alphabet[s_1] ... alphabet[s_m] in step order,
\* m the number of steps before the first EOS, or max_seq_len when no step
\* selects EOS; a text cut by the cap is no error and reaches the adapter like
\* any other.
C4_TextIsSelectedPrefix ==
    /\ pc = "append" =>
         /\ text = TextOf(LogSelected)
         /\ NoEos(LogSelected) => Len(LogSelected) = max_seq_len /\ Len(text) = max_seq_len
         /\ error = "none"
    /\ pc = "done" =>
         /\ error = "none"
         /\ \A j \in 1..Len(decoded) :
              LET sel == decoded[j].selected
              IN  /\ adapter_in["texts"].items[j] = TextOf(sel)
                  /\ NoEos(sel) => Len(sel) = max_seq_len
                                   /\ Len(adapter_in["texts"].items[j]) = max_seq_len

\* a text of two different characters that ran into the cap reached the adapter
C4_Witness ==
    /\ pc = "done"
    /\ max_seq_len = 2
    /\ \E j \in 1..Len(decoded) :
         /\ NoEos(decoded[j].selected)
         /\ Len(adapter_in["texts"].items[j]) = 2
         /\ adapter_in["texts"].items[j][1] # adapter_in["texts"].items[j][2]

\* ------------------------------------------------------------------ C5
IsZeroOfDeclaredShape(t) ==
    /\ t.shape = DecoderHiddenShape
    /\ Len(t.data) = Prod(DecoderHiddenShape)
    /\ \A k \in 1..Len(t.data) : t.data[k] = 0

\* C5: step 1 of every instance gets the all-zero hidden state of the declared
\* shape, step k+1 gets exactly the cur_hidden step k returned, and the
\* cur_hidden of a step that selects EOS is passed to no later step.
C5_HiddenThreading ==
    /\ \A k \in 1..Len(dec_log) :
         /\ k = 1 => IsZeroOfDeclaredShape(dec_log[k].prev_hidden)
         /\ k > 1 => dec_log[k].prev_hidden = dec_log[k - 1].cur_hidden
         /\ k < Len(dec_log) => LogSelected[k] # eos_index
    /\ pc = "decode" =>
         IF dec_log = <<>> THEN IsZeroOfDeclaredShape(hidden)
         ELSE hidden = dec_log[Len(dec_log)].cur_hidden

\* the second instance is being decoded after a first one that ended with a
\* non-zero hidden state
C5_Witness ==
    /\ Len(decoded) = 1
    /\ Len(decoded[1].text) = 2
    /\ decoded[1].text[2] # alphabet[1]
    /\ Len(dec_log) = 2
    /\ ~IsZeroOfDeclaredShape(dec_log[2].prev_hidden)

\* ------------------------------------------------------------------ C6
\* C6: step 1 of every instance gets sos_index as previous symbol, step k+1
\* gets the greedy argmax index of the distribution step k returned.
C6_PrevSymbolThreading ==
    /\ \A k \in 1..Len(dec_log) :
         /\ k = 1 => dec_log[k].prev_symbol = <<sos_index>>
         /\ k > 1 => dec_log[k].prev_symbol = <<LogSelected[k - 1]>>
    /\ pc = "decode" =>
         IF dec_log = <<>> THEN prev_symbol_index = <<sos_index>>
         ELSE prev_symbol_index = <<LogSelected[Len(dec_log)]>>

\* the second instance is being decoded after a first one whose last selected
\* symbol was not sos_index
C6_Witness ==
    /\ Len(decoded) = 1
    /\ decoded[1].selected # <<>>
    /\ decoded[1].selected[Len(decoded[1].selected)] # sos_index
    /\ Len(dec_log) = 2
    /\ dec_log[2].prev_symbol # <<sos_index>>

\* ------------------------------------------------------------------ C7
BatchOfOne(ids, shape) == Len(ids) = 1 /\ Len(shape) = 4 /\ shape[1] = 1

\* C7: a call whose batch is not exactly one (identifiers, rank or batch
\* dimension) ends in an assertion failure with no backend call made, the
\* adapter not invoked and nothing returned.
C7_BadBatchRejected ==
    (pc # "idle" /\ ~BatchOfOne(idenitifiers, input_data)) =>
        /\ pc = "failed"
        /\ error = "AssertionError"
        /\ calls = <<>>
        /\ adapter_in = None
        /\ output = None

\* a batch of two images whose elements would fit the declared input
C7_Witness ==
    /\ pc = "failed"
    /\ idenitifiers = <<"img0">>
    /\ input_data = <<2, 1, 2, 3>>

\* ------------------------------------------------------------------ C8
\* C8: a failed backend call is the last call of its predict: no call follows
\* it, the call ends with the backend's error, the adapter is not invoked and
\* nothing is returned.
C8_BackendFailureAborts ==
    /\ \A k \in 1..(Len(calls) - 1) : calls[k].ok
    /\ (calls # <<>> /\ ~calls[Len(calls)].ok) =>
         /\ pc = "failed"
         /\ error = "BackendError"
         /\ output = None
         /\ adapter_in = None
         /\ \A k \in 1..Len(calls) : calls[k].kind # "adapter"

\* the decoder fails on the second instance, after the first was decoded
C8_Witness ==
    /\ pc = "failed"
    /\ Len(decoded) = 1
    /\ calls[Len(calls)] = Call("decoder", 2, FALSE)

\* ------------------------------------------------------------------ C9
KindAt(k) == calls[k].kind

\* C9: in a successful predict the detector is called once and first, the
\* adapter once and last; in between the calls go instance by instance in
\* order, each instance with one encoder call followed by its decoder calls.
C9_CallOrder ==
    pc = "done" =>
        LET n == Len(ReturnedFeatures)
            last == Len(calls)
        IN  /\ last >= 2
            /\ \A k \in 1..last : (KindAt(k) = "detector") <=> (k = 1)
            /\ \A k \in 1..last : (KindAt(k) = "adapter") <=> (k = last)
            /\ \A k \in 2..(last - 1) : calls[k].inst \in 1..n
            /\ \A k \in 2..(last - 2) : calls[k].inst <= calls[k + 1].inst
            /\ \A j \in 1..n :
                 \E e \in 2..(last - 1) :
                    /\ calls[e] = Call("encoder", j, TRUE)
                    /\ \A k \in 2..(last - 1) :
                         calls[k].inst = j /\ k # e => KindAt(k) = "decoder" /\ k > e

\* two instances, the first with two decoder calls
C9_Witness ==
    /\ pc = "done"
    /\ Len(ReturnedFeatures) = 2
    /\ DecoderCallsOf(1) = 2
    /\ DecoderCallsOf(2) >= 1

\* ----------------------------------------------------------------- C10
\* C10 as stated: the adapter gets the texts under 'texts' and every key the
\* detector produced, whatever its name, with the detector's value.
C10_EveryKeyUnchanged ==
    pc = "done" =>
        /\ adapter_in["texts"].items = [j \in 1..Len(decoded) |-> decoded[j].text]
        /\ \A k \in DOMAIN detector_returned : adapter_in[k] = detector_returned[k]

\* C10 (amended): the adapter gets the detector's mapping with the texts under
\* 'texts'; every key the detector produced other than 'texts' has the
\* detector's value, and no other key is added.
C10_OtherKeysUnchanged ==
    pc = "done" =>
        /\ DOMAIN adapter_in = DOMAIN detector_returned \cup {"texts"}
        /\ adapter_in["texts"].items = [j \in 1..Len(decoded) |-> decoded[j].text]
        /\ \A k \in DOMAIN detector_returned \ {"texts"} : adapter_in[k] = detector_returned[k]

\* the detector returned boxes and scores, and a 'texts' entry of its own
C10_Witness ==
    /\ pc = "done"
    /\ {"boxes", "scores", "texts"} \subseteq DOMAIN detector_returned
    /\ Len(decoded) = 2

\* ----------------------------------------------------------------- C14
\* element (b, c, h, w), 0-based, of a 4-D tensor in row-major order
Elem4(t, b, c, h, w) ==
    t.data[((b * t.shape[2] + c) * t.shape[3] + h) * t.shape[4] + w + 1]

\* element (b, p, c), 0-based, of a 3-D tensor in row-major order
Elem3(t, b, p, c) == t.data[(b * t.shape[2] + p) * t.shape[3] + c + 1]

\* C14: the context of an instance has shape (B, H*W, C) for an encoder output
\* of shape (B, C, H, W), its element [b][h*W + w][c] is the encoder's
\* [b][c][h][w], and every decoder step of the instance is given this same
\* context.
C14_ContextLayout ==
    /\ feature # NoTensor =>
         LET B == feature_raw.shape[1]
             C == feature_raw.shape[2]
             H == feature_raw.shape[3]
             W == feature_raw.shape[4]
         IN  /\ feature_raw \in EncoderOutputs(enc_input)
             /\ feature.shape = <<B, H * W, C>>
             /\ Len(feature.data) = B * H * W * C
             /\ \A b \in 0..(B - 1), c \in 0..(C - 1), h \in 0..(H - 1), w \in 0..(W - 1) :
                  Elem3(feature, b, h * W + w, c) = Elem4(feature_raw, b, c, h, w)
    /\ \A k \in 1..Len(dec_log) :
         /\ dec_log[k].encoder_outputs = dec_log[1].encoder_outputs
         /\ pc \in {"decode", "append"} => dec_log[k].encoder_outputs = feature

\* two decoder steps were made on the context of a (1, 2, 2, 2) encoder output,
\* whose elements the transposition moved
C14_Witness ==
    /\ Len(dec_log) = 2
    /\ feature_raw.shape = <<1, 2, 2, 2>>
    /\ feature.shape = <<1, 4, 2>>
    /\ feature.data # feature_raw.data
    /\ dec_log[1].encoder_outputs = dec_log[2].encoder_outputs

\* ----------------------------------------------------------------- C11
\* no local of predict holds a value
NoLocals ==
    /\ detector_outputs = None
    /\ feat_idx = 0
    /\ texts = <<>>
    /\ enc_input = 0
    /\ feature_raw = NoTensor
    /\ feature = NoTensor
    /\ hidden = NoTensor
    /\ prev_symbol_index = <<>>
    /\ text = <<>>
    /\ i = 0

\* nothing is left of an earlier call
NothingCarriedOver ==
    /\ pc \in {"idle", "done", "failed"} => NoLocals
    /\ pc = "idle" =>
         /\ error = "none"
         /\ idenitifiers = <<>> /\ input_data = <<>>
         /\ calls = <<>> /\ dec_log = <<>> /\ decoded = <<>>
         /\ detector_returned = None /\ adapter_in = None /\ output = None

\* C11: a predict call leaves nothing behind for the next one: when a call has
\* returned or raised, no hidden state, previous symbol, text, collected texts
\* or detector output of it remains, the model object on which the next call
\* starts is the one the first call started on, and no step of predict changes
\* a field of the model.
C11_CallsIndependent == []NothingCarriedOver /\ [][fields' = fields]_vars

\* a call that decoded two instances, the first to a text of two characters,
\* has returned
C11_Witness ==
    /\ pc = "done"
    /\ Len(decoded) = 2
    /\ Len(decoded[1].text) = 2
    /\ NoLocals

\* ----------------------------------------------------------------- C20
\* the call in progress or just ended was given a batch of one that fits the
\* detector's input
ValidCall ==
    /\ pc # "idle"
    /\ Len(idenitifiers) = 1
    /\ Len(input_data) = 4 /\ input_data[1] = 1
    /\ Prod(input_data) = Prod(DetectorInputShape)

\* C20: once release has been called the model cannot be used: every predict
\* call fails with no backend call made, the adapter not invoked and nothing
\* returned, a call with valid input with an attribute error at the detector
\* call; the
\* first release succeeds and drops all three handles, every later release
\* fails with an attribute error.
C20_NoUseAfterRelease ==
    /\ (release_log # <<>> /\ pc # "idle") =>
         /\ pc = "failed"
         /\ ValidCall => error = "AttributeError"
         /\ calls = <<>>
         /\ adapter_in = None
         /\ output = None
    /\ handles = IF release_log = <<>> THEN SubModels ELSE {}
    /\ \A k \in 1..Len(release_log) :
         release_log[k] = IF k = 1 THEN "ok" ELSE "AttributeError"

\* release was called twice and a predict call with valid input followed
C20_Witness ==
    /\ release_log = <<"ok", "AttributeError">>
    /\ ValidCall
    /\ error = "AttributeError"

\* ----------------------------------------------------------------- C13
AllKeys ==
    {"detector", "recognizer_encoder", "recognizer_decoder", "recognizer_decoder_inputs",
     "recognizer_decoder_outputs", "max_seq_len", "adapter", "alphabet", "sos_index",
     "eos_index"}

LacksAKey == \E k \in AllKeys : k \notin DOMAIN network_info

NoModelObject ==
    /\ max_seq_len = None /\ alphabet = None /\ sos_index = None /\ eos_index = None
    /\ calls = <<>> /\ output = None /\ adapter_in = None

ProcessDatasetEnded ==
    /\ ev_pc = "ready"
    /\ ev_log # <<>>
    /\ ev_log[Len(ev_log)].op \in {"completed", "raised"}

ProcessDatasetCompleted ==
    /\ ev_pc = "ready"
    /\ ev_log # <<>>
    /\ ev_log[Len(ev_log)].op = "completed"

\* the events of the log that are of the given kinds, in order
RECURSIVE OfKinds(_, _)
OfKinds(log, kinds) ==
    IF log = <<>> THEN <<>>
    ELSE IF Head(log).op \in kinds THEN <<Head(log)>> \o OfKinds(Tail(log), kinds)
    ELSE OfKinds(Tail(log), kinds)

ModelAndExecutorCalls == OfKinds(ev_log, {"predict", "update_metrics_on_batch"})
ReporterCalls == OfKinds(ev_log, {"reporter_reset", "reporter_update", "reporter_finish"})

PredictFailed == \E k \in 1..Len(ev_log) : ev_log[k].op = "predict" /\ ~ev_log[k].ok

InProcessDataset == ev_pc = "batches" \/ ProcessDatasetEnded

\* ----------------------------------------------------------------- C12
\* C12: TextSpottingEvaluator.release drops the detector, encoder and decoder
\* handles, all three, before it releases the launcher: the launcher is never
\* released while a handle is held, and the launcher's release finds no handle.
C12_HandlesBeforeLauncher ==
    /\ launcher_released => handles = {}
    /\ \A k \in 1..Len(ev_log) :
         ev_log[k].op = "launcher_release" =>
            /\ ev_log[k].handles_held = {}
            /\ k > 1 /\ ev_log[k - 1].op = "model_release" /\ ev_log[k - 1].outcome = "ok"

\* release has run to its end
C12_Witness ==
    /\ ev_pc = "ready"
    /\ launcher_released
    /\ release_log = <<"ok">>
    /\ Len(ev_log) = 2
    /\ ev_log[2].op = "launcher_release"

\* ----------------------------------------------------------------- C15
\* C15: the calls process_dataset makes on the model and the metric executor
\* are, batch after batch in dataset order, one predict with the batch's
\* identifiers followed by one update_metrics_on_batch with that batch's
\* indices and annotations and the prediction that predict returned; a
\* process_dataset that completes has made both calls for every batch.
C15_PredictThenUpdatePerBatch ==
    InProcessDataset =>
        LET cs == ModelAndExecutorCalls
        IN  /\ \A k \in 1..Len(cs) :
                 LET b == (k - 1) \div 2
                 IN  IF k % 2 = 1
                     THEN /\ cs[k].op = "predict"
                          /\ cs[k].identifiers = <<b>>
                          /\ ~cs[k].ok => k = Len(cs)
                     ELSE /\ cs[k].op = "update_metrics_on_batch"
                          /\ cs[k].indices = <<b>>
                          /\ cs[k].annotation = <<[identifier |-> b, annotation |-> TRUE]>>
                          /\ cs[k - 1].ok
                          /\ cs[k].prediction = cs[k - 1].result
            /\ Len(cs) <= 2 * dataset_size
            /\ ev_pc = "batches" => Len(cs) = 2 * batch_id
            /\ ProcessDatasetCompleted => Len(cs) = 2 * dataset_size

\* a dataset of two batches was processed to the end, with different predictions
C15_Witness ==
    /\ ProcessDatasetCompleted
    /\ dataset_size = 2
    /\ Len(ModelAndExecutorCalls) = 4
    /\ ModelAndExecutorCalls[1].result[1].value # ModelAndExecutorCalls[3].result[1].value

\* ----------------------------------------------------------------- C16
\* C16: the list compute_metrics returns holds exactly the metrics the executor
\* yielded in this call, one entry each, in yield order, whatever the results
\* buffer held before the call.
C16_ReturnsThisCallsMetrics ==
    returned # None =>
        /\ Len(ev_log) = 1
        /\ ev_log[1].op = "iterate_metrics"
        /\ returned = ev_log[1].yielded
        /\ _metrics_results = ev_log[1].yielded

\* compute_metrics was called on a buffer holding other results
C16_Witness ==
    /\ returned # None
    /\ ev_log[1].buffer_before # <<>>
    /\ ev_log[1].buffer_before # ev_log[1].yielded

\* ----------------------------------------------------------------- C17
IsList(value) == value # None /\ value.type = "list"

\* the annotations and predictions of the batches 0..n-1, as process_dataset
\* was handed them
AnnotationsOf(cs) == [k \in 1..(Len(cs) \div 2) |-> cs[2 * k].annotation[1]]
PredictionsOf(cs) == [k \in 1..(Len(cs) \div 2) |-> cs[2 * k].prediction[1]]

\* C17 as stated: with need_store_predictions true, process_dataset runs to its
\* end unless predict raises, and the stored annotations and predictions are
\* two lists holding those of every batch in dataset order; with it false both
\* are None.
C17_StoredAsTwoLists ==
    ProcessDatasetEnded =>
        IF need_store_predictions
        THEN /\ ~PredictFailed => ev_error # "AttributeError"
             /\ IsList(_annotations)
             /\ IsList(_predictions)
             /\ _annotations.items = AnnotationsOf(ModelAndExecutorCalls)
             /\ _predictions.items = PredictionsOf(ModelAndExecutorCalls)
        ELSE _annotations = None /\ _predictions = None

\* ----------------------------------------------------------------- C18
\* C18 as stated: without a progress reporter, process_dataset over a dataset
\* whose predict calls all succeed and whose predictions are not stored
\* processes every batch and completes without error; a supplied reporter gets
\* reset once, then one update per batch, then finish once.
C18_ReporterOptional ==
    /\ (ProcessDatasetEnded /\ ~progress_reporter
            /\ ~need_store_predictions /\ ~PredictFailed) =>
         /\ ProcessDatasetCompleted
         /\ ev_error = "none"
         /\ Len(ModelAndExecutorCalls) = 2 * dataset_size
    /\ (ProcessDatasetCompleted /\ progress_reporter) =>
         LET rs == ReporterCalls
         IN  /\ Len(rs) = dataset_size + 2
             /\ rs[1].op = "reporter_reset"
             /\ rs[Len(rs)].op = "reporter_finish"
             /\ \A k \in 2..(Len(rs) - 1) :
                  rs[k].op = "reporter_update" /\ rs[k].batch_id = k - 2

\* ----------------------------------------------------------------- C19
\* C19 as stated: what print_metrics_results hands to the presenters and what
\* compute_metrics returns was computed after the last reset.
C19_NothingStaleReported ==
    /\ \A k \in 1..Len(written) : written[k].epoch = epoch
    /\ returned # None => \A k \in 1..Len(returned) : returned[k].epoch = epoch

====
